---- MODULE Spec2Model ----
(***************************************************************************)
(* Model of the two notebooks of quantum-algorithms-tutorials:             *)
(*   variational_quantum_eigensolver.ipynb  (quantum_module, vqe)          *)
(*   iterative_phase_estimation.ipynb       (the IPEA loop)                *)
(*                                                                         *)
(* Numbers.  Python floats are modelled as exact rationals, records        *)
(* [num, den] in lowest terms with den > 0.  Angles are kept in units of   *)
(* pi/2, so np.pi is the integer 2 and a full turn is 4.                   *)
(* Dictionaries are functions whose DOMAIN is the set of keys present.     *)
(***************************************************************************)
EXTENDS Integers, Sequences, FiniteSets, TLC

VARIABLES
    \* ---- variational_quantum_eigensolver.ipynb
    pauli_dict,   \* the global Hamiltonian mapping label -> coefficient
    parameters,   \* the ansatz parameters of the last call, as the call left them
    arguments,    \* the ansatz parameters of the last call, as they were passed
    op,           \* the last top-level call: "none", "quantum_module", "vqe",
                  \* "vqe_circuit"
    measure,      \* the basis label of the last quantum_module call
    outcome,      \* "none", "returned" or "raised"
    result,       \* the value the last call returned
    error,        \* the exception the last call raised
    qm_calls,     \* labels quantum_module was invoked with during the last call
    vc_calls,     \* labels vqe_circuit was invoked with during the last call
    executed,     \* simulator executions of the last call: circuit, shots, counts
    returned_circuit, \* the circuit the last vqe_circuit call returned
    seed_simulator, \* the seed the backend is configured with, -1 if unseeded
    previous,     \* what the call before the last one was given and produced
    twin,         \* what an estimation completed before the current one recovered
    \* ---- iterative_phase_estimation.ipynb
    E_2,          \* the eigenvalue of H on |1>, in units of pi/2 per unit of time
    num_bits_estimate, \* the bit budget
    phi,          \* eigenphase (in turns) of control_H on the prepared eigenstate
    noiseless,    \* TRUE: the backend samples the ideal distribution
    pc,           \* "loop" while the for loop runs, "done" after it, "reported"
                  \* when the eigenvalue is computed
    todo,         \* what is left of reversed(range(num_bits_estimate))
    k_precision,  \* the loop variable (-1 before the first iteration)
    phase,        \* the accumulated phase
    k_circ,       \* the circuit of the last iteration
    counts,       \* the counts of the last iteration
    value,        \* the bit recovered in the last iteration
    history,      \* per finished iteration: k, bit, phase before and after, the
                  \* circuit built and the simulator executions made
    eigenvalue    \* the estimated eigenvalue, in units of pi/2 per unit of time

vqe_vars == <<pauli_dict, parameters, arguments, op, measure, outcome, result, error,
              qm_calls, vc_calls, executed, returned_circuit>>
ipea_vars == <<E_2, num_bits_estimate, phi, noiseless, pc, todo, k_precision,
               phase, k_circ, counts, value, history, eigenvalue>>
seeded_vars == <<seed_simulator, previous>>
twin_vars == <<twin>>
vars == <<vqe_vars, ipea_vars, seeded_vars, twin_vars>>

----------------------------------------------------------------------------
(* Bounds of the model *)

\* the simulator's counts are drawn from 0, shots and CountGrid - 1 values between
CountGrid == 2
\* largest bit budget num_bits_estimate explored
MaxBits == 3
\* the seeds 0..MaxSeed a seeded backend is configured with
MaxSeed == 2
\* the counts of an IPEA iteration are drawn from the multiples of shots / VoteGrid
VoteGrid == 4

----------------------------------------------------------------------------
(* Exact rational arithmetic standing for Python's float arithmetic *)

Abs(n) == IF n < 0 THEN -n ELSE n

RECURSIVE Gcd(_, _)
Gcd(a, b) == IF b = 0 THEN a ELSE Gcd(b, a % b)

\* n / d for d > 0, in lowest terms
Rat(n, d) ==
    LET g == Gcd(Abs(n), d)
    IN  [num |-> n \div g, den |-> d \div g]

RatInt(n) == [num |-> n, den |-> 1]
Zero == RatInt(0)
One == RatInt(1)

RatAdd(a, b) == Rat(a.num * b.den + b.num * a.den, a.den * b.den)
RatSub(a, b) == Rat(a.num * b.den - b.num * a.den, a.den * b.den)
RatMul(a, b) == Rat(a.num * b.num, a.den * b.den)
\* a / b for b # 0
RatDiv(a, b) ==
    IF b.num > 0 THEN Rat(a.num * b.den, a.den * b.num)
    ELSE Rat(-(a.num * b.den), -(a.den * b.num))
RatLe(a, b) == a.num * b.den <= b.num * a.den
RatLt(a, b) == a.num * b.den < b.num * a.den

RECURSIVE Pow2(_)
Pow2(n) == IF n = 0 THEN 1 ELSE 2 * Pow2(n - 1)

\* np.pi, in units of pi/2
np_pi == 2

----------------------------------------------------------------------------
(* The simulator backend: execute(circuit, backend, shots).result().get_counts() *)

\* the numbers of '0' outcomes the model lets a run of `shots` shots produce
CountSamples(n) ==
    {0, n} \cup {j * (n \div CountGrid) : j \in 1..(CountGrid - 1)}

\* get_counts(): only outcomes that occurred are keys; the counts sum to shots
CountsOf(n0, n) ==
    [key \in ((IF n0 > 0 THEN {"0"} ELSE {}) \cup (IF n0 < n THEN {"1"} ELSE {}))
        |-> IF key = "0" THEN RatInt(n0) ELSE RatInt(n - n0)]

AllCounts(n) == {CountsOf(n0, n) : n0 \in CountSamples(n)}

----------------------------------------------------------------------------
(* variational_quantum_eigensolver.ipynb *)

Labels == {"I", "Z", "X", "Y"}

\* an instruction of a circuit
Gate(name, args) == [gate |-> name, args |-> args]

\* QuantumCircuit(q, c): no instruction yet
QuantumCircuit == <<>>

ValueError(msg) == [type |-> "ValueError", message |-> msg]
NoError == [type |-> "none", message |-> ""]

\* variant: the two rotations are applied in the other order
quantum_state_preparation_ry_first(circuit, params) ==
    circuit \o <<Gate("ry", <<params[2]>>), Gate("rx", <<params[1]>>)>>

\* what the list params holds after quantum_state_preparation(circuit, params):
\* the function reads parameters[0] and parameters[1] and assigns to neither
quantum_state_preparation_leaves(params) == params

quantum_state_preparation(circuit, params) ==
    circuit \o <<Gate("rx", <<params[1]>>), Gate("ry", <<params[2]>>)>>

\* variant: the ansatz is prepared from the global parameters, the ones of the call
\* made before, not from the argument
vqe_circuit_global_parameters(params, m) ==
    LET circuit == quantum_state_preparation(QuantumCircuit, parameters)
    IN  IF m = "Z" THEN
            [raised |-> FALSE, error |-> NoError, measure |-> m,
             circuit |-> circuit \o <<Gate("measure", <<>>)>>]
        ELSE IF m = "X" THEN
            [raised |-> FALSE, error |-> NoError, measure |-> m,
             circuit |-> circuit \o <<Gate("u2", <<0, np_pi>>), Gate("measure", <<>>)>>]
        ELSE IF m = "Y" THEN
            [raised |-> FALSE, error |-> NoError, measure |-> m,
             circuit |-> circuit \o <<Gate("u2", <<0, np_pi \div 2>>), Gate("measure", <<>>)>>]
        ELSE
            [raised |-> TRUE, measure |-> m,
             error |-> ValueError("Not valid input for measurement: input should be \"X\" or \"Y\" or \"Z\""),
             circuit |-> <<>>]

vqe_circuit(params, m) ==
    LET circuit == quantum_state_preparation(QuantumCircuit, params)
    IN  IF m = "Z" THEN
            [raised |-> FALSE, error |-> NoError, measure |-> m,
             circuit |-> circuit \o <<Gate("measure", <<>>)>>]
        ELSE IF m = "X" THEN
            [raised |-> FALSE, error |-> NoError, measure |-> m,
             circuit |-> circuit \o <<Gate("u2", <<0, np_pi>>), Gate("measure", <<>>)>>]
        ELSE IF m = "Y" THEN
            [raised |-> FALSE, error |-> NoError, measure |-> m,
             circuit |-> circuit \o <<Gate("u2", <<0, np_pi \div 2>>), Gate("measure", <<>>)>>]
        ELSE
            [raised |-> TRUE, measure |-> m,
             error |-> ValueError("Not valid input for measurement: input should be \"X\" or \"Y\" or \"Z\""),
             circuit |-> <<>>]

\* variant: a missing key is read as 1
get_or_else_one(d, key) ==
    IF key \in DOMAIN d THEN d[key] ELSE One

get_or_else_zero(d, key) ==
    IF key \in DOMAIN d THEN d[key] ELSE Zero

\* variant: the lookup is d.setdefault(key, 0), which stores the default
get_or_else_zero_setdefault_leaves(d, key) ==
    [l \in DOMAIN d \cup {key} |-> IF l \in DOMAIN d THEN d[l] ELSE Zero]

\* what the mapping d holds after get_or_else_zero(d, key): the function tests
\* `key in d` and reads d[key], it does not assign
get_or_else_zero_leaves(d, key) == d

\* shots = 1000 in quantum_module
shots == 1000

\* variant: the difference of the counts is not divided by the shot count
expectation_value_undivided(cnts) ==
    RatSub(get_or_else_zero(cnts, "0"), get_or_else_zero(cnts, "1"))

\* expectation_value = (get_or_else_zero(counts, '0') - get_or_else_zero(counts,'1')) / shots
expectation_value(cnts) ==
    RatDiv(RatSub(get_or_else_zero(cnts, "0"), get_or_else_zero(cnts, "1")),
           RatInt(shots))

\* the part of quantum_module after the dispatch on measure: run the circuit
\* vqe_circuit built (sim[m] is what the simulator answers) and reduce the counts
quantum_module_run(built, m, sim) ==
    IF built.raised THEN
        [raised |-> TRUE, error |-> built.error, value |-> Zero,
         calls |-> <<m>>, vc_calls |-> <<built.measure>>, executed |-> <<>>]
    ELSE
        [raised |-> FALSE, error |-> NoError, value |-> expectation_value(sim[m]),
         calls |-> <<m>>, vc_calls |-> <<built.measure>>,
         executed |-> <<[circuit |-> built.circuit, shots |-> shots, counts |-> sim[m]]>>]

\* variant: the branch for 'I' is missing, so 'I' reaches the final else
quantum_module_without_I(params, m, sim) ==
    IF m = "Z" THEN quantum_module_run(vqe_circuit(params, "Z"), m, sim)
    ELSE IF m = "X" THEN quantum_module_run(vqe_circuit(params, "X"), m, sim)
    ELSE IF m = "Y" THEN quantum_module_run(vqe_circuit(params, "Y"), m, sim)
    ELSE
        [raised |-> TRUE,
         error |-> ValueError("Not valid input for measurement: input should be \"I\" or \"X\" or \"Z\" or \"Y\""),
         value |-> Zero, calls |-> <<m>>, vc_calls |-> <<>>, executed |-> <<>>]

\* variant: an unrecognised label is answered with 0 instead of an error
quantum_module_lenient(params, m, sim) ==
    IF m = "I" THEN
        [raised |-> FALSE, error |-> NoError, value |-> One,
         calls |-> <<m>>, vc_calls |-> <<>>, executed |-> <<>>]
    ELSE IF m = "Z" THEN quantum_module_run(vqe_circuit(params, "Z"), m, sim)
    ELSE IF m = "X" THEN quantum_module_run(vqe_circuit(params, "X"), m, sim)
    ELSE IF m = "Y" THEN quantum_module_run(vqe_circuit(params, "Y"), m, sim)
    ELSE
        [raised |-> FALSE, error |-> NoError, value |-> Zero,
         calls |-> <<m>>, vc_calls |-> <<>>, executed |-> <<>>]

\* variant: the final else raises with the message of vqe_circuit, which leaves "I"
\* out of the accepted labels
quantum_module_message_of_vqe_circuit(params, m, sim) ==
    IF m = "I" THEN
        [raised |-> FALSE, error |-> NoError, value |-> One,
         calls |-> <<m>>, vc_calls |-> <<>>, executed |-> <<>>]
    ELSE IF m = "Z" THEN quantum_module_run(vqe_circuit(params, "Z"), m, sim)
    ELSE IF m = "X" THEN quantum_module_run(vqe_circuit(params, "X"), m, sim)
    ELSE IF m = "Y" THEN quantum_module_run(vqe_circuit(params, "Y"), m, sim)
    ELSE
        [raised |-> TRUE,
         error |-> ValueError("Not valid input for measurement: input should be \"X\" or \"Y\" or \"Z\""),
         value |-> Zero, calls |-> <<m>>, vc_calls |-> <<>>, executed |-> <<>>]

\* variant: no dispatch on measure, every label but "I" is handed to vqe_circuit
quantum_module_forwarding(params, m, sim) ==
    IF m = "I" THEN
        [raised |-> FALSE, error |-> NoError, value |-> One,
         calls |-> <<m>>, vc_calls |-> <<>>, executed |-> <<>>]
    ELSE quantum_module_run(vqe_circuit(params, m), m, sim)

quantum_module(params, m, sim) ==
    IF m = "I" THEN
        [raised |-> FALSE, error |-> NoError, value |-> One,
         calls |-> <<m>>, vc_calls |-> <<>>, executed |-> <<>>]
    ELSE IF m = "Z" THEN quantum_module_run(vqe_circuit(params, "Z"), m, sim)
    ELSE IF m = "X" THEN quantum_module_run(vqe_circuit(params, "X"), m, sim)
    ELSE IF m = "Y" THEN quantum_module_run(vqe_circuit(params, "Y"), m, sim)
    ELSE
        [raised |-> TRUE,
         error |-> ValueError("Not valid input for measurement: input should be \"I\" or \"X\" or \"Z\" or \"Y\""),
         value |-> Zero, calls |-> <<m>>, vc_calls |-> <<>>, executed |-> <<>>]

\* what a call that is not made contributes to the logs
NotCalled ==
    [raised |-> FALSE, error |-> NoError, value |-> Zero,
     calls |-> <<>>, vc_calls |-> <<>>, executed |-> <<>>]

\* variant: the Y term is left out of the sum
vqe_without_Y(params, sim) ==
    LET qI == quantum_module(params, "I", sim)
        qZ == quantum_module(params, "Z", sim)
        qX == quantum_module(params, "X", sim)
        qY == quantum_module(params, "Y", sim)
    IN  [raised |-> FALSE, error |-> NoError,
         value |-> RatAdd(RatAdd(RatMul(get_or_else_zero(pauli_dict, "I"), qI.value),
                                 RatMul(get_or_else_zero(pauli_dict, "Z"), qZ.value)),
                          RatMul(get_or_else_zero(pauli_dict, "X"), qX.value)),
         calls |-> qI.calls \o qZ.calls \o qX.calls \o qY.calls,
         vc_calls |-> qI.vc_calls \o qZ.vc_calls \o qX.vc_calls \o qY.vc_calls,
         executed |-> qI.executed \o qZ.executed \o qX.executed \o qY.executed]

\* variant: the estimator is called only for the labels pauli_dict holds
vqe_skipping_absent(params, sim) ==
    LET q(l) == IF l \in DOMAIN pauli_dict THEN quantum_module(params, l, sim) ELSE NotCalled
        term(l) == RatMul(get_or_else_zero(pauli_dict, l), q(l).value)
    IN  [raised |-> FALSE, error |-> NoError,
         value |-> RatAdd(RatAdd(RatAdd(term("I"), term("Z")), term("X")), term("Y")),
         calls |-> q("I").calls \o q("Z").calls \o q("X").calls \o q("Y").calls,
         vc_calls |-> q("I").vc_calls \o q("Z").vc_calls \o q("X").vc_calls
                        \o q("Y").vc_calls,
         executed |-> q("I").executed \o q("Z").executed \o q("X").executed
                        \o q("Y").executed]

\* variant: the estimator is not called for a term whose coefficient is zero
vqe_skipping_zero_terms(params, sim) ==
    LET q(l) == IF get_or_else_zero(pauli_dict, l) # Zero
                THEN quantum_module(params, l, sim) ELSE NotCalled
        term(l) == RatMul(get_or_else_zero(pauli_dict, l), q(l).value)
    IN  [raised |-> FALSE, error |-> NoError,
         value |-> RatAdd(RatAdd(RatAdd(term("I"), term("Z")), term("X")), term("Y")),
         calls |-> q("I").calls \o q("Z").calls \o q("X").calls \o q("Y").calls,
         vc_calls |-> q("I").vc_calls \o q("Z").vc_calls \o q("X").vc_calls
                        \o q("Y").vc_calls,
         executed |-> q("I").executed \o q("Z").executed \o q("X").executed
                        \o q("Y").executed]

\* vqe(parameters): reads the global pauli_dict
vqe(params, sim) ==
    LET qI == quantum_module(params, "I", sim)
        qZ == quantum_module(params, "Z", sim)
        qX == quantum_module(params, "X", sim)
        qY == quantum_module(params, "Y", sim)
        quantum_module_I == RatMul(get_or_else_zero(pauli_dict, "I"), qI.value)
        quantum_module_Z == RatMul(get_or_else_zero(pauli_dict, "Z"), qZ.value)
        quantum_module_X == RatMul(get_or_else_zero(pauli_dict, "X"), qX.value)
        quantum_module_Y == RatMul(get_or_else_zero(pauli_dict, "Y"), qY.value)
        classical_adder ==
            RatAdd(RatAdd(RatAdd(quantum_module_I, quantum_module_Z), quantum_module_X),
                   quantum_module_Y)
    IN  [raised |-> FALSE, error |-> NoError, value |-> classical_adder,
         calls |-> qI.calls \o qZ.calls \o qX.calls \o qY.calls,
         vc_calls |-> qI.vc_calls \o qZ.vc_calls \o qX.vc_calls \o qY.vc_calls,
         executed |-> qI.executed \o qZ.executed \o qX.executed \o qY.executed]

\* what the global pauli_dict holds after vqe(parameters): it is handed to
\* get_or_else_zero for I, Z, X and Y in turn
vqe_leaves(d) ==
    get_or_else_zero_leaves(
        get_or_else_zero_leaves(
            get_or_else_zero_leaves(get_or_else_zero_leaves(d, "I"), "Z"), "X"), "Y")

----------------------------------------------------------------------------
(* Inputs explored for the VQE notebook *)

\* Hamiltonians a*I + b*Z + c*X + d*Y as hamiltonian_operator(a, b, c, d) lists them
Hamiltonians ==
    { [l \in Labels |-> CASE l = "I" -> Rat(2, 5) [] l = "Z" -> Rat(3, 5)
                           [] l = "X" -> Rat(4, 5) [] l = "Y" -> Zero],
      [l \in Labels |-> CASE l = "I" -> Rat(-1, 2) [] l = "Z" -> One
                           [] l = "X" -> Rat(-4, 5) [] l = "Y" -> Rat(3, 10)] }

\* Hamiltonian mappings: any of the Hamiltonians with any of its terms left out
PauliDicts == {[l \in ls |-> h[l]] : h \in Hamiltonians, ls \in SUBSET Labels}

\* ansatz parameters (theta1, theta2), in units of pi/2
ParamSet == {<<np_pi, np_pi>>, <<0, np_pi \div 2>>}

\* basis labels handed to quantum_module: the four recognised ones and others
BasisInputs == Labels \cup {"H", "z", ""}

\* what the simulator answers to the circuits of the labels in ls
SimAnswers(ls) == [ls -> AllCounts(shots)]

VqeInit ==
    /\ pauli_dict \in PauliDicts
    /\ parameters = <<np_pi, np_pi>>
    /\ arguments = <<np_pi, np_pi>>
    /\ op = "none"
    /\ measure = "none"
    /\ outcome = "none"
    /\ result = Zero
    /\ error = NoError
    /\ qm_calls = <<>>
    /\ vc_calls = <<>>
    /\ executed = <<>>
    /\ returned_circuit = <<>>

\* the record r a call produced becomes the observable state
Finish(name, params, m, r) ==
    /\ op' = name
    /\ arguments' = params
    /\ parameters' = IF r.vc_calls # <<>> THEN quantum_state_preparation_leaves(params)
                                         ELSE params
    /\ measure' = m
    /\ outcome' = IF r.raised THEN "raised" ELSE "returned"
    /\ result' = r.value
    /\ error' = r.error
    /\ qm_calls' = r.calls
    /\ vc_calls' = r.vc_calls
    /\ executed' = r.executed
    /\ returned_circuit' = IF "circuit" \in DOMAIN r THEN r.circuit ELSE <<>>
    /\ pauli_dict' = IF name = "vqe" THEN vqe_leaves(pauli_dict) ELSE pauli_dict

\* a direct call vqe_circuit(params, m)
VqeCircuitCall ==
    \E params \in ParamSet, m \in BasisInputs :
        LET r == vqe_circuit(params, m)
        IN  Finish("vqe_circuit", params, m,
                   [raised |-> r.raised, error |-> r.error, value |-> Zero,
                    calls |-> <<>>, vc_calls |-> <<m>>, executed |-> <<>>,
                    circuit |-> r.circuit])

\* a direct call quantum_module(params, m)
QuantumModuleCall ==
    \E params \in ParamSet, m \in BasisInputs :
        \E sim \in SimAnswers({m} \cap {"Z", "X", "Y"}) :
            Finish("quantum_module", params, m, quantum_module(params, m, sim))

RECURSIVE SumSeq(_)
SumSeq(q) == IF q = <<>> THEN 0 ELSE Head(q) + SumSeq(Tail(q))

\* a number a seeded pseudo-random generator derives from the circuit it samples
RECURSIVE CircuitCode(_)
CircuitCode(circuit) ==
    IF circuit = <<>> THEN 0
    ELSE Len(circuit) * SumSeq(circuit[Len(circuit)].args)
           + CircuitCode(SubSeq(circuit, 1, Len(circuit) - 1))

\* execute(circuit, backend, shots) on a backend seeded with seed: the counts are a
\* fixed function of the seed, the circuit and the number of shots
SeededCounts(seed, circuit, n) ==
    LET j == (seed + CircuitCode(circuit)) % (CountGrid + 1)
    IN  CountsOf(IF j = CountGrid THEN n ELSE j * (n \div CountGrid), n)

\* what one call was given and produced
CallSummary ==
    [op |-> op, parameters |-> parameters, measure |-> measure, outcome |-> outcome,
     result |-> result, error |-> error, executed |-> executed]

NoCall ==
    [op |-> "none", parameters |-> <<>>, measure |-> "none", outcome |-> "none",
     result |-> Zero, error |-> NoError, executed |-> <<>>]

SeededInit ==
    /\ VqeInit
    /\ pauli_dict \in Hamiltonians
    /\ seed_simulator \in 0..MaxSeed
    /\ previous = NoCall

\* a direct call quantum_module(params, m) against the seeded backend
SeededQuantumModuleCall ==
    /\ seed_simulator >= 0
    /\ \E params \in ParamSet, m \in BasisInputs :
         LET sim == [l \in {m} \cap {"Z", "X", "Y"} |->
                        SeededCounts(seed_simulator, vqe_circuit(params, l).circuit, shots)]
         IN  Finish("quantum_module", params, m, quantum_module(params, m, sim))
    /\ previous' = CallSummary
    /\ UNCHANGED seed_simulator

\* a call vqe(params), as the optimizer makes it
VqeCall ==
    \E params \in ParamSet :
        \E sim \in SimAnswers({"Z", "X", "Y"}) :
            Finish("vqe", params, "none", vqe(params, sim))

----------------------------------------------------------------------------
(* Claims about the VQE notebook, checked under SpecVQE *)

Range(f) == {f[i] : i \in DOMAIN f}

\* the count the simulator reported for an outcome, 0 when it never occurred
Reported(cnts, key) == IF key \in DOMAIN cnts THEN cnts[key].num ELSE 0

\* C1: quantum_module(parameters, 'I') returns exactly 1 for every parameter pair,
\* without building a circuit and without any simulator execution.
C1_identity_returns_one ==
    (op = "quantum_module" /\ measure = "I") =>
        /\ outcome = "returned"
        /\ result = [num |-> 1, den |-> 1]
        /\ vc_calls = <<>>
        /\ executed = <<>>

C1_witness ==
    /\ op = "quantum_module"
    /\ measure = "I"
    /\ parameters = <<0, 1>>
    /\ outcome = "returned"

\* C2: for every basis label outside {I, X, Y, Z} quantum_module raises ValueError
\* and the call executes no circuit on the simulator (none is even built).
C2_invalid_label_raises ==
    (op = "quantum_module" /\ measure \notin {"I", "X", "Y", "Z"}) =>
        /\ outcome = "raised"
        /\ error.type = "ValueError"
        /\ vc_calls = <<>>
        /\ executed = <<>>

C2_witness ==
    /\ op = "quantum_module"
    /\ measure = "H"
    /\ outcome = "raised"

\* C3: for basis X, Y or Z and whatever counts the simulator returned, quantum_module
\* ran one circuit with shots = 1000 and returns (n0 - n1) / 1000, n0 and n1 being
\* the counts under '0' and '1', an absent key counting as 0.
C3_expectation_from_counts ==
    (op = "quantum_module" /\ measure \in {"X", "Y", "Z"}) =>
        /\ outcome = "returned"
        /\ Len(executed) = 1
        /\ executed[1].shots = 1000
        /\ result.den > 0
        /\ result.num * 1000 =
             (Reported(executed[1].counts, "0") - Reported(executed[1].counts, "1"))
               * result.den

\* a run in which outcome '1' never occurred, so its key is absent
C3_witness ==
    /\ op = "quantum_module"
    /\ measure = "X"
    /\ outcome = "returned"
    /\ Len(executed) = 1
    /\ DOMAIN executed[1].counts = {"0"}

\* the counts are non-negative integers over the outcomes '0', '1' summing to the shots
CountsWellFormed(e) ==
    /\ DOMAIN e.counts \subseteq {"0", "1"}
    /\ \A key \in DOMAIN e.counts : e.counts[key].den = 1 /\ e.counts[key].num >= 0
    /\ Reported(e.counts, "0") + Reported(e.counts, "1") = e.shots

\* C4: for every basis in {I, X, Y, Z} and counts summing to the shot count, the value
\* quantum_module returns lies in [-1, 1].
C4_value_in_unit_interval ==
    (/\ op = "quantum_module"
     /\ measure \in {"I", "X", "Y", "Z"}
     /\ \A i \in DOMAIN executed : CountsWellFormed(executed[i])) =>
        /\ outcome = "returned"
        /\ result.den > 0
        /\ -result.den <= result.num
        /\ result.num <= result.den

\* the value -1: every shot gave outcome '1'
C4_witness ==
    /\ op = "quantum_module"
    /\ measure = "Y"
    /\ outcome = "returned"
    /\ Len(executed) = 1
    /\ CountsWellFormed(executed[1])
    /\ result = [num |-> -1, den |-> 1]

\* the estimator's output for label l in the last vqe call, from the logged counts:
\* the circuits ran in the order Z, X, Y
EstimateOf(l) ==
    IF l = "I" THEN One
    ELSE LET e == executed[CASE l = "Z" -> 1 [] l = "X" -> 2 [] l = "Y" -> 3]
         IN  Rat(Reported(e.counts, "0") - Reported(e.counts, "1"), 1000)

\* the sum of pauli_dict[l] * EstimateOf(l) over the labels of ls that pauli_dict holds
RECURSIVE WeightedSum(_)
WeightedSum(ls) ==
    IF ls = <<>> THEN Zero
    ELSE IF Head(ls) \in DOMAIN pauli_dict
         THEN RatAdd(RatMul(pauli_dict[Head(ls)], EstimateOf(Head(ls))),
                     WeightedSum(Tail(ls)))
         ELSE WeightedSum(Tail(ls))

\* C5: vqe(parameters) returns the coefficient-weighted sum of the estimator's outputs
\* over the labels I, Z, X, Y that pauli_dict holds; an absent label adds nothing.
C5_vqe_weighted_sum ==
    op = "vqe" =>
        /\ outcome = "returned"
        /\ Len(executed) = 3
        /\ result = WeightedSum(<<"I", "Z", "X", "Y">>)

\* a Hamiltonian without its Y term whose Y circuit nevertheless gave a non-zero estimate
C5_witness ==
    /\ op = "vqe"
    /\ outcome = "returned"
    /\ DOMAIN pauli_dict = {"I", "Z", "X"}
    /\ Len(executed) = 3
    /\ DOMAIN executed[3].counts = {"1"}
    /\ result # Zero

\* C6 as stated: during a vqe evaluation a label absent from pauli_dict triggers no
\* estimator call and no circuit execution.
C6_absent_label_not_estimated ==
    op = "vqe" =>
        \A l \in Labels \ DOMAIN pauli_dict :
            /\ l \notin Range(qm_calls)
            /\ l \notin Range(vc_calls)

\* the calls vqe makes of quantum_module with label l
CallsWith(l) == {i \in DOMAIN qm_calls : qm_calls[i] = l}

\* C6 as amended: a label absent from pauli_dict adds nothing to the sum, but
\* quantum_module is still invoked for it, once, and for Z, X, Y its circuit is
\* built and executed.
C6_absent_label_still_estimated ==
    op = "vqe" =>
        \A l \in Labels \ DOMAIN pauli_dict :
            /\ Cardinality(CallsWith(l)) = 1
            /\ l # "I" => l \in Range(vc_calls)
            /\ Len(executed) = 3
            /\ result = WeightedSum(<<"I", "Z", "X", "Y">>)

\* a vqe evaluation of a Hamiltonian that holds neither X nor Y
C6_witness ==
    /\ op = "vqe"
    /\ outcome = "returned"
    /\ DOMAIN pauli_dict = {"I", "Z"}
    /\ qm_calls = <<"I", "Z", "X", "Y">>
    /\ Len(executed) = 3

\* the text part occurs somewhere in the text msg
Contains(msg, part) ==
    \E i \in 1..(Len(msg) - Len(part) + 1) : SubSeq(msg, i, i + Len(part) - 1) = part

\* the message names the label l: it holds l between double quotes
NamesLabel(msg, l) == Contains(msg, "\"" \o l \o "\"")

\* the messages the last call raises for the inputs it does not accept
MessagesRaised ==
    IF op = "quantum_module" THEN
        {quantum_module(parameters, m, <<>>).error.message : m \in BasisInputs \ Labels}
    ELSE IF op = "vqe_circuit" THEN
        {vqe_circuit(parameters, m).error.message : m \in BasisInputs \ {"X", "Y", "Z"}}
    ELSE {}

\* C11 as stated: the message of the failure an unrecognized basis label produces
\* names the offending input value and the accepted set of labels, {I, X, Y, Z} from
\* quantum_module and {X, Y, Z} from vqe_circuit.
C11_message_names_input_and_accepted_set ==
    outcome = "raised" =>
        /\ measure # "" => Contains(error.message, measure)
        /\ op = "quantum_module" => \A l \in Labels : NamesLabel(error.message, l)
        /\ op = "vqe_circuit" => \A l \in {"X", "Y", "Z"} : NamesLabel(error.message, l)

\* C11 as amended: the message names the accepted set of labels, {I, X, Y, Z} from
\* quantum_module and {X, Y, Z} (not I) from vqe_circuit; it is a fixed text, the same
\* for every offending input, and does not name the offending input value.
\* Checked under SpecVQE.
C11_message_names_accepted_set_only ==
    outcome = "raised" =>
        /\ error.type = "ValueError"
        /\ op \in {"quantum_module", "vqe_circuit"}
        /\ op = "quantum_module" => \A l \in Labels : NamesLabel(error.message, l)
        /\ op = "vqe_circuit" =>
              /\ \A l \in {"X", "Y", "Z"} : NamesLabel(error.message, l)
              /\ ~NamesLabel(error.message, "I")
        /\ MessagesRaised = {error.message}
        /\ ~NamesLabel(error.message, measure)
        /\ measure # "" => ~Contains(error.message, measure)

\* quantum_module refused the label "H"
C11_witness ==
    /\ op = "quantum_module"
    /\ outcome = "raised"
    /\ measure = "H"
    /\ NamesLabel(error.message, "Y")
    /\ ~Contains(error.message, "H")

BasisChange(m) ==
    IF m = "X" THEN <<[gate |-> "u2", args |-> <<0, 2>>]>>
    ELSE IF m = "Y" THEN <<[gate |-> "u2", args |-> <<0, 1>>]>>
    ELSE <<>>

\* the instructions of the circuit for basis m, in order
CircuitInOrder(params, m) ==
    <<[gate |-> "rx", args |-> <<params[1]>>], [gate |-> "ry", args |-> <<params[2]>>]>>
    \o BasisChange(m)
    \o <<[gate |-> "measure", args |-> <<>>]>>

\* C22: for a basis in {X, Y, Z} the circuit vqe_circuit builds is, in order,
\* rx(parameters[0]), ry(parameters[1]), the basis change (none for Z, u2(0, pi) for
\* X, u2(0, pi/2) for Y) and exactly one measurement as the last operation;
\* quantum_module executes that circuit exactly once with 1000 shots.
\* Checked under SpecVQE.
C22_circuit_steps_in_order ==
    /\ (op = "vqe_circuit" /\ measure \in {"X", "Y", "Z"}) =>
          /\ outcome = "returned"
          /\ returned_circuit = CircuitInOrder(parameters, measure)
          /\ executed = <<>>
    /\ (op = "quantum_module" /\ measure \in {"X", "Y", "Z"}) =>
          /\ vc_calls = <<measure>>
          /\ Len(executed) = 1
          /\ executed[1].circuit = CircuitInOrder(parameters, measure)
          /\ executed[1].shots = 1000
          /\ Cardinality({j \in DOMAIN executed[1].circuit :
                            executed[1].circuit[j].gate = "measure"}) = 1

\* the Y estimate at (0, pi/2): rx(0), ry(pi/2), u2(0, pi/2), measure, run once
C22_witness ==
    /\ op = "quantum_module"
    /\ measure = "Y"
    /\ parameters = <<0, 1>>
    /\ Len(executed) = 1
    /\ Len(executed[1].circuit) = 4
    /\ <<executed[1].circuit[1].gate, executed[1].circuit[2].gate,
          executed[1].circuit[3].gate, executed[1].circuit[4].gate>>
         = <<"rx", "ry", "u2", "measure">>
    /\ executed[1].circuit[3].args = <<0, 1>>

\* C23: neither quantum_module nor vqe modifies its inputs or any state that
\* survives the call: over any sequence of quantum_module and vqe calls the
\* Hamiltonian mapping pauli_dict never changes, and after every call, whether it
\* returned or raised, the ansatz parameters are what was passed.
\* Checked under SpecVQE.
C23_inputs_not_modified ==
    /\ [][pauli_dict' = pauli_dict]_vars
    /\ [](op \in {"quantum_module", "vqe"} => parameters = arguments)

\* quantum_module raised while the Hamiltonian mapping holds only Z
C23_witness ==
    /\ op = "quantum_module"
    /\ outcome = "raised"
    /\ DOMAIN pauli_dict = {"Z"}
    /\ parameters = <<0, 1>>
    /\ arguments = <<0, 1>>

\* C24: every evaluation of vqe invokes quantum_module exactly four times, in the
\* order I, Z, X, Y, and executes exactly three simulator circuits, those of Z, X
\* and Y in that order with 1000 shots each, whichever labels the Hamiltonian mapping
\* holds and whatever their coefficients are, zero included.  Checked under SpecVQE.
C24_four_calls_three_executions ==
    op = "vqe" =>
        /\ outcome = "returned"
        /\ qm_calls = <<"I", "Z", "X", "Y">>
        /\ vc_calls = <<"Z", "X", "Y">>
        /\ Len(executed) = 3
        /\ \A i \in 1..3 :
              /\ executed[i].circuit = CircuitInOrder(parameters, vc_calls[i])
              /\ executed[i].shots = 1000

\* a vqe evaluation of a Hamiltonian whose mapping holds Y with coefficient zero
C24_witness ==
    /\ op = "vqe"
    /\ outcome = "returned"
    /\ DOMAIN pauli_dict = Labels
    /\ pauli_dict["Y"] = Zero
    /\ qm_calls = <<"I", "Z", "X", "Y">>
    /\ Len(executed) = 3

\* C25: vqe_circuit accepts only X, Y and Z: called with I or any other label it
\* raises ValueError and returns no circuit.  quantum_module never passes I or an
\* unrecognized label to vqe_circuit, so through quantum_module and vqe the error
\* branch of vqe_circuit is never taken: what they raise is raised by quantum_module
\* itself, before any circuit is built.  Checked under SpecVQE.
C25_vqe_circuit_error_branch_unreachable ==
    /\ op = "vqe_circuit" =>
          IF measure \in {"X", "Y", "Z"}
          THEN outcome = "returned" /\ returned_circuit # <<>>
          ELSE /\ outcome = "raised"
               /\ error.type = "ValueError"
               /\ returned_circuit = <<>>
               /\ executed = <<>>
    /\ op \in {"quantum_module", "vqe"} =>
          /\ Range(vc_calls) \subseteq {"X", "Y", "Z"}
          /\ \A l \in Range(vc_calls) : ~vqe_circuit(arguments, l).raised
          /\ Len(executed) = Len(vc_calls)
          /\ outcome = "raised" =>
                /\ vc_calls = <<>>
                /\ error.message # vqe_circuit(arguments, measure).error.message

\* vqe_circuit called with I
C25_witness ==
    /\ op = "vqe_circuit"
    /\ measure = "I"
    /\ outcome = "raised"
    /\ error.type = "ValueError"
    /\ returned_circuit = <<>>

----------------------------------------------------------------------------
(* iterative_phase_estimation.ipynb *)

\* an instruction of k_circ: the gate, its arguments, the qubit it acts on
IGate(name, args, qubit) == [gate |-> name, args |-> args, qubit |-> qubit]

RatNeg(a) == [num |-> -a.num, den |-> a.den]

\* the fractional part of a, in [0, 1)
Frac(a) == Rat(a.num % a.den, a.den)

\* variant: range(n), not reversed: 0, 1, ..., n-1
forward_range(n) == [i \in 1..n |-> i - 1]

\* variant: reversed(range(1, n)): n-1, ..., 1, bit index 0 is never visited
reversed_range_from_one(n) == [i \in 1..(n - 1) |-> n - i]

\* variant: reversed(range(n + 1)): n, n-1, ..., 0, one index too many
reversed_range_inclusive(n) == [i \in 1..(n + 1) |-> n + 1 - i]

\* reversed(range(n)): n-1, n-2, ..., 0
reversed_range(n) == [i \in 1..n |-> n - i]

\* variant: the for statement is lost, control_H is appended once
append_control_H_once(circuit, times) ==
    Append(circuit, IGate("control_H", <<>>, "a,q"))

\* `for order in range(2 ** k_precision): k_circ += control_H`
RECURSIVE append_control_H(_, _)
append_control_H(circuit, times) ==
    IF times = 0 THEN circuit
    ELSE append_control_H(Append(circuit, IGate("control_H", <<>>, "a,q")), times - 1)

\* variant: the feedback angle lacks the factor 2 ** k_precision
phase_shift_unscaled(ph, k) == RatMul(RatInt(2 * np_pi), ph)

\* phase_shift = 2 * np.pi * phase * 2 ** k_precision, in units of pi/2
phase_shift(ph, k) == RatMul(RatMul(RatInt(2 * np_pi), ph), RatInt(Pow2(k)))

\* variant: the feedback rotation is u1(phase_shift), the sign is lost
build_k_circ_positive_feedback(k, ph) ==
    LET c1 == Append(<<>>, IGate("x", <<>>, "q"))
        c2 == Append(c1, IGate("h", <<>>, "a"))
        c3 == append_control_H(c2, Pow2(k))
        c4 == Append(c3, IGate("u1", <<phase_shift(ph, k)>>, "a"))
        c5 == Append(c4, IGate("h", <<>>, "a"))
    IN  Append(c5, IGate("measure", <<>>, "a"))

\* variant: QuantumCircuit(q, a, c) is not called again, the instructions are
\* appended to the circuit of the iteration before
build_k_circ_reusing(k, ph) ==
    LET c1 == Append(k_circ, IGate("x", <<>>, "q"))
        c2 == Append(c1, IGate("h", <<>>, "a"))
        c3 == append_control_H(c2, Pow2(k))
        c4 == Append(c3, IGate("u1", <<RatNeg(phase_shift(ph, k))>>, "a"))
        c5 == Append(c4, IGate("h", <<>>, "a"))
    IN  Append(c5, IGate("measure", <<>>, "a"))

\* steps (1) to (5) of the loop body: the circuit of the iteration for bit index k
build_k_circ(k, ph) ==
    LET c1 == Append(<<>>, IGate("x", <<>>, "q"))
        c2 == Append(c1, IGate("h", <<>>, "a"))
        c3 == append_control_H(c2, Pow2(k))
        c4 == Append(c3, IGate("u1", <<RatNeg(phase_shift(ph, k))>>, "a"))
        c5 == Append(c4, IGate("h", <<>>, "a"))
    IN  Append(c5, IGate("measure", <<>>, "a"))

\* shots=1000 in the loop's execute call
ipea_shots == 1000

\* whether the main qubit is |1> when instruction i of the circuit acts: it
\* starts in |0> and every x gate before i flips it
MainIsOne(circuit, i) ==
    Cardinality({j \in 1..(i - 1) : circuit[j].gate = "x"}) % 2 = 1

\* the sum of the angles, in turns, of the u1 gates among instructions is
RECURSIVE U1Turns(_, _)
U1Turns(circuit, is) ==
    IF is = {} THEN Zero
    ELSE LET i == CHOOSE j \in is : TRUE
         IN  RatAdd(RatDiv(circuit[i].args[1], RatInt(2 * np_pi)),
                    U1Turns(circuit, is \ {i}))

\* The relative phase, in turns, the circuit puts on the ancillary qubit's |1>
\* component: each control_H contributes the eigenphase of the main qubit's
\* state (phi on |1>, nothing on |0> since E_1 = 0), each u1 its angle.
AncillaTurns(circuit) ==
    LET applied == {i \in DOMAIN circuit :
                      circuit[i].gate = "control_H" /\ MainIsOne(circuit, i)}
        rotated == {i \in DOMAIN circuit : circuit[i].gate = "u1"}
    IN  RatAdd(RatMul(RatInt(Cardinality(applied)), phi), U1Turns(circuit, rotated))

\* variant: the relative phase is not taken modulo a full turn
SimCounts_unreduced(circuit, n) ==
    LET r == AncillaTurns(circuit)
        any == {CountsOf(n0, n) :
                  n0 \in {0, n} \cup {j * (n \div VoteGrid) : j \in 1..(VoteGrid - 1)}}
    IN  IF ~noiseless THEN any
        ELSE IF r = Zero THEN {CountsOf(n, n)}
        ELSE IF r = Rat(1, 2) THEN {CountsOf(0, n)}
        ELSE any

\* The counts execute(k_circ, backend, shots=n) can return.  Between the two
\* Hadamards the ancillary qubit carries the relative phase r (in turns), so
\* outcome 1 has probability sin^2(pi r): a noiseless backend returns only '0'
\* when r = 0 and only '1' when r = 1/2; otherwise, and on a noisy backend,
\* every split of the shots can occur.
SimCounts(circuit, n) ==
    LET r == Frac(AncillaTurns(circuit))
        any == {CountsOf(n0, n) :
                  n0 \in {0, n} \cup {j * (n \div VoteGrid) : j \in 1..(VoteGrid - 1)}}
    IN  IF ~noiseless THEN any
        ELSE IF r = Zero THEN {CountsOf(n, n)}
        ELSE IF r = Rat(1, 2) THEN {CountsOf(0, n)}
        ELSE any

\* variant: min instead of max, a key of smallest count
py_min(cnts) ==
    {key \in DOMAIN cnts : \A other \in DOMAIN cnts : RatLe(cnts[key], cnts[other])}

\* max(counts, key=counts.get): a key of largest count; among equal counts the
\* first in the mapping's iteration order, which the backend decides
py_max(cnts) ==
    {key \in DOMAIN cnts : \A other \in DOMAIN cnts : RatLe(cnts[other], cnts[key])}

\* int(key) for the outcome strings of a one-bit classical register
py_int(key) == CASE key = "0" -> 0 [] key = "1" -> 1

\* variant: the divisor is 2 ** k_precision
phase_update_off_by_one(ph, v, k) == RatAdd(ph, RatDiv(RatInt(v), RatInt(Pow2(k))))

\* variant: = instead of +=, the phase accumulated so far is overwritten
phase_update_overwriting(ph, v, k) == RatDiv(RatInt(v), RatInt(Pow2(k + 1)))

\* phase += value / 2 ** (k_precision + 1)
phase_update(ph, v, k) == RatAdd(ph, RatDiv(RatInt(v), RatInt(Pow2(k + 1))))

\* eigenphases explored: multiples of 1/2^(MaxBits+1) in [0, 2), and 1/3
PhiSet ==
    {Rat(j, Pow2(MaxBits + 1)) : j \in 0..(2 * Pow2(MaxBits + 1) - 1)} \cup {Rat(1, 3)}

\* t = 1
t == 1

\* U = exp(-iHt) on an eigenstate of eigenvalue E: the phase it multiplies by, in
\* turns, reduced to [0, 1)
evolve_phase(E) == Frac(RatNeg(RatDiv(RatMul(E, RatInt(t)), RatInt(2 * np_pi))))

\* eigenvalues explored: those below 2 * (2*pi/t) whose evolved phase is in PhiSet
EnergySet ==
    {RatDiv(RatMul(RatInt(2 * np_pi), x), RatInt(t)) :
        x \in {y \in {RatSub(RatInt(i), p) : p \in PhiSet, i \in 1..2} :
                  RatLe(Zero, y) /\ RatLt(y, RatInt(2))}}

\* eigenvalue = 2 * np.pi * (1 - phase) / t
eigenvalue_of(ph) ==
    RatDiv(RatMul(RatInt(2 * np_pi), RatSub(One, ph)), RatInt(t))

IpeaInit ==
    /\ E_2 \in EnergySet
    /\ num_bits_estimate \in 0..MaxBits
    /\ phi \in {p \in PhiSet : Frac(p) = evolve_phase(E_2)}
    /\ eigenvalue = Zero
    /\ noiseless \in BOOLEAN
    /\ pc = "loop"
    /\ todo = reversed_range(num_bits_estimate)
    /\ k_precision = -1
    /\ phase = Zero
    /\ k_circ = <<>>
    /\ counts = <<>>
    /\ value = 0
    /\ history = <<>>

\* one pass through the loop body
Iteration ==
    /\ pc = "loop"
    /\ todo # <<>>
    /\ LET k == Head(todo)
           circ == build_k_circ(k, phase)
       IN  \E cnts \in SimCounts(circ, ipea_shots) :
             \E key \in py_max(cnts) :
               /\ k_precision' = k
               /\ todo' = Tail(todo)
               /\ k_circ' = circ
               /\ counts' = cnts
               /\ value' = py_int(key)
               /\ phase' = phase_update(phase, py_int(key), k)
               /\ history' = Append(history,
                     [k |-> k, bit |-> py_int(key), before |-> phase,
                      after |-> phase_update(phase, py_int(key), k),
                      circuit |-> circ,
                      executed |-> <<[circuit |-> circ, shots |-> ipea_shots]>>])
    /\ UNCHANGED <<E_2, num_bits_estimate, phi, noiseless, pc, eigenvalue>>

\* the iterator is exhausted: the for statement ends
LoopExit ==
    /\ pc = "loop"
    /\ todo = <<>>
    /\ pc' = "done"
    /\ UNCHANGED <<E_2, num_bits_estimate, phi, noiseless, todo, k_precision, phase,
                   k_circ, counts, value, history, eigenvalue>>

\* the cell after the loop: the eigenvalue is computed from the phase
ReportEigenvalue ==
    /\ pc = "done"
    /\ pc' = "reported"
    /\ eigenvalue' = eigenvalue_of(phase)
    /\ UNCHANGED <<E_2, num_bits_estimate, phi, noiseless, todo, k_precision, phase,
                   k_circ, counts, value, history>>

----------------------------------------------------------------------------
(* Specifications: one per notebook; the other notebook's state stays idle *)

VqeIdle ==
    /\ pauli_dict = <<>>
    /\ parameters = <<np_pi, np_pi>>
    /\ arguments = <<np_pi, np_pi>>
    /\ op = "none"
    /\ measure = "none"
    /\ outcome = "none"
    /\ result = Zero
    /\ error = NoError
    /\ qm_calls = <<>>
    /\ vc_calls = <<>>
    /\ executed = <<>>
    /\ returned_circuit = <<>>

\* no estimation was completed before the current one
NoTwin == [made |-> FALSE, phi |-> Zero, bits |-> <<>>, phase |-> Zero]

\* The notebook is run again from the cell that draws E_2, with an eigenvalue larger
\* by 2*pi/t: the eigenphase of the new controlled unitary differs by one whole turn.
\* What the completed estimation recovered is kept for comparison.
Rerun ==
    /\ pc = "done"
    /\ ~twin.made
    /\ RatLe(One, phi)
    /\ twin' = [made |-> TRUE, phi |-> phi,
                bits |-> [i \in DOMAIN history |-> history[i].bit], phase |-> phase]
    /\ E_2' = RatAdd(E_2, RatDiv(RatInt(2 * np_pi), RatInt(t)))
    /\ phi' = RatSub(phi, One)
    /\ pc' = "loop"
    /\ todo' = reversed_range(num_bits_estimate)
    /\ k_precision' = -1
    /\ phase' = Zero
    /\ k_circ' = <<>>
    /\ counts' = <<>>
    /\ value' = 0
    /\ history' = <<>>
    /\ eigenvalue' = Zero
    /\ UNCHANGED <<num_bits_estimate, noiseless>>

SeededIdle ==
    /\ seed_simulator = -1
    /\ previous = NoCall

IpeaIdle ==
    /\ E_2 = Zero
    /\ eigenvalue = Zero
    /\ num_bits_estimate = 0
    /\ phi = Zero
    /\ noiseless = TRUE
    /\ pc = "done"
    /\ todo = <<>>
    /\ k_precision = -1
    /\ phase = Zero
    /\ k_circ = <<>>
    /\ counts = <<>>
    /\ value = 0
    /\ history = <<>>

InitVQE == VqeInit /\ IpeaIdle /\ SeededIdle /\ twin = NoTwin
NextVQE ==
    \/ QuantumModuleCall /\ UNCHANGED <<ipea_vars, seeded_vars, twin_vars>>
    \/ VqeCall /\ UNCHANGED <<ipea_vars, seeded_vars, twin_vars>>
    \/ VqeCircuitCall /\ UNCHANGED <<ipea_vars, seeded_vars, twin_vars>>
SpecVQE == InitVQE /\ [][NextVQE]_vars

InitIPEA == IpeaInit /\ VqeIdle /\ SeededIdle /\ twin = NoTwin
NextIPEA ==
    \/ Iteration /\ UNCHANGED <<vqe_vars, seeded_vars, twin_vars>>
    \/ LoopExit /\ UNCHANGED <<vqe_vars, seeded_vars, twin_vars>>
    \/ ReportEigenvalue /\ UNCHANGED <<vqe_vars, seeded_vars, twin_vars>>
SpecIPEA == InitIPEA /\ [][NextIPEA]_vars

\* two noiseless estimations in a row, the eigenphases 1 + x and then x
InitTwin ==
    /\ IpeaInit
    /\ noiseless
    /\ RatLe(One, phi)
    /\ RatLt(E_2, RatDiv(RatInt(2 * np_pi), RatInt(t)))
    /\ VqeIdle
    /\ SeededIdle
    /\ twin = NoTwin
NextTwin ==
    \/ Iteration /\ UNCHANGED <<vqe_vars, seeded_vars, twin_vars>>
    \/ LoopExit /\ UNCHANGED <<vqe_vars, seeded_vars, twin_vars>>
    \/ Rerun /\ UNCHANGED <<vqe_vars, seeded_vars>>
SpecTwin == InitTwin /\ [][NextTwin]_vars

\* quantum_module called again and again against a seeded backend
InitSeeded == SeededInit /\ IpeaIdle /\ twin = NoTwin
NextSeeded == SeededQuantumModuleCall /\ UNCHANGED <<ipea_vars, twin_vars>>
SpecSeeded == InitSeeded /\ [][NextSeeded]_vars

----------------------------------------------------------------------------
(* Claims about the IPEA notebook *)

\* a phase in [0, 1) that num_bits_estimate binary digits write exactly
Representable(x) ==
    /\ RatLe(Zero, x)
    /\ RatLt(x, One)
    /\ Pow2(num_bits_estimate) % x.den = 0

\* C7: in a noiseless run, for every num_bits and every phase phi in [0, 1) exactly
\* representable in num_bits binary digits, the phase accumulated when the loop has
\* ended equals phi, on every run.  Checked under SpecIPEA.
C7_noiseless_exact_recovery ==
    (noiseless /\ Representable(phi) /\ pc = "done") => phase = phi

\* phi = 0.101b = 0.625 with num_bits = 3
C7_witness ==
    /\ noiseless
    /\ num_bits_estimate = 3
    /\ phi = [num |-> 5, den |-> 8]
    /\ pc = "done"
    /\ phase = [num |-> 5, den |-> 8]

\* the bit indices of the iterations made so far strictly decrease: no index is
\* visited twice, and they started at num_bits - 1
IndicesDescend ==
    \A i \in DOMAIN history : history[i].k = num_bits_estimate - i

LoopShape ==
    /\ Len(history) <= num_bits_estimate
    /\ IndicesDescend
    /\ pc = "loop" => Len(history) + Len(todo) = num_bits_estimate
    /\ pc # "loop" => Len(history) = num_bits_estimate
    /\ (pc # "loop" /\ num_bits_estimate > 0) => history[Len(history)].k = 0
    /\ num_bits_estimate = 0 => (history = <<>> /\ phase = Zero)

\* the loop can take its next step: the body can run (the simulator answers and
\* max finds a key), or the exhausted iterator ends the for statement
CanStep ==
    \/ /\ pc = "loop"
       /\ todo # <<>>
       /\ \E cnts \in SimCounts(build_k_circ(Head(todo), phase), ipea_shots) :
            py_max(cnts) # {}
    \/ /\ pc = "loop"
       /\ todo = <<>>

\* the steps the loop still has to take: the iterations left and the exit
StepsLeft == IF pc = "loop" THEN Len(todo) + 1 ELSE 0

\* C8: for every num_bits >= 0 and every sequence of measurement outcomes the loop
\* ends, after exactly num_bits iterations: no early exit, no iteration repeated,
\* none beyond k = 0; with num_bits = 0 the body never runs and phase stays 0.
\* Until it has ended the loop can always step, every step leaves one step fewer,
\* and it ends only when num_bits iterations are made.  Checked under SpecIPEA.
C8_exactly_num_bits_iterations ==
    /\ [](LoopShape /\ (pc # "loop" \/ CanStep))
    /\ [][/\ pc = "loop" => StepsLeft' = StepsLeft - 1
          /\ pc' = "done" => Len(history) = num_bits_estimate
          /\ pc' = "loop" => Len(history') = Len(history) + 1]_vars

\* a noisy run of three iterations that has ended
C8_witness ==
    /\ ~noiseless
    /\ num_bits_estimate = 3
    /\ pc = "done"
    /\ Len(history) = 3

\* C9: the accumulated phase is 0 initially and lies in [0, 1) in every reachable
\* state, for every num_bits and every sequence of recovered bits; each iteration
\* changes it once, by adding a non-negative amount, and nothing else changes it.
\* Checked under SpecIPEA.
C9_phase_in_unit_interval ==
    /\ phase = Zero
    /\ [](RatLe(Zero, phase) /\ RatLt(phase, One))
    /\ [][/\ Len(history') = Len(history) + 1 => RatLe(phase, phase')
          /\ Len(history') = Len(history) => phase' = phase
          /\ Len(history') \in {Len(history), Len(history) + 1}]_vars

\* every bit recovered as 1: the largest phase three bits can accumulate
C9_witness ==
    /\ num_bits_estimate = 3
    /\ pc = "done"
    /\ phase = [num |-> 7, den |-> 8]

\* what a recovered 1 at bit index k adds to the accumulated phase
Weight(k) == phase_update(Zero, 1, k)

\* C10 as stated: most significant digit first: the digit of the first iteration has
\* weight 1/2, each later iteration's digit a strictly smaller weight.
C10_most_significant_first ==
    /\ Len(history) >= 1 => Weight(history[1].k) = [num |-> 1, den |-> 2]
    /\ \A i, j \in DOMAIN history :
         i < j => RatLt(Weight(history[j].k), Weight(history[i].k))

\* the binary digit of weight 2^-j of x
Digit(x, j) == ((x.num * Pow2(j)) \div x.den) % 2

\* C10 as amended: one binary digit per iteration, least significant first: the digit
\* of the first iteration has the smallest weight, 2^-num_bits, each later iteration's
\* digit twice the weight of the one before, the last one weight 1/2; in a noiseless
\* run on a representable phase the bit recovered is that digit of the phase.
\* Checked under SpecIPEA.
C10_least_significant_first ==
    /\ Len(history) >= 1 =>
         Weight(history[1].k) = [num |-> 1, den |-> Pow2(num_bits_estimate)]
    /\ \A i \in DOMAIN history :
         /\ history[i].bit \in {0, 1}
         /\ i > 1 => Weight(history[i].k) = RatMul(RatInt(2), Weight(history[i - 1].k))
         /\ (noiseless /\ Representable(phi)) =>
                history[i].bit = Digit(phi, history[i].k + 1)
    /\ (pc = "done" /\ num_bits_estimate > 0) =>
         Weight(history[Len(history)].k) = [num |-> 1, den |-> 2]

\* the three digits of 0.011b = 0.375 recovered in the order 1, 1, 0
C10_witness ==
    /\ noiseless
    /\ num_bits_estimate = 3
    /\ phi = [num |-> 3, den |-> 8]
    /\ pc = "done"
    /\ <<history[1].bit, history[2].bit, history[3].bit>> = <<1, 1, 0>>
    /\ <<history[1].k, history[2].k, history[3].k>> = <<2, 1, 0>>

\* the eigenvalue is in [0, 2*pi/t) and E*t/(2*pi) is written exactly by
\* num_bits_estimate binary digits
EnergyRepresentable ==
    Representable(RatDiv(RatMul(E_2, RatInt(t)), RatInt(2 * np_pi)))

\* C13 as stated: the reported eigenvalue is 2*pi*(1 - phase)/t, and for a controlled
\* unitary exp(-i*E*t) with E*t/(2*pi) in [0, 1) representable in num_bits binary
\* digits and noiseless measurement it equals the true eigenvalue E, E = 0 included.
C13_eigenvalue_equals_E ==
    pc = "reported" =>
        /\ eigenvalue = eigenvalue_of(phase)
        /\ (noiseless /\ EnergyRepresentable) => eigenvalue = E_2

\* what the code does: E is recovered unless it is 0, and E = 0 is reported as 2*pi/t
C13_except_zero ==
    (pc = "reported" /\ noiseless /\ EnergyRepresentable) =>
        eigenvalue = IF E_2 = Zero THEN RatDiv(RatInt(2 * np_pi), RatInt(t)) ELSE E_2

\* the bits recovered before iteration i are the binary digits of phi
EarlierBitsCorrect(i) ==
    \A j \in 1..(i - 1) : history[j].bit = Digit(phi, history[j].k + 1)

\* 2^k * (phi - ph) mod 1: the residual phase of the iteration for bit index k
Residual(k, ph) == Frac(RatMul(RatInt(Pow2(k)), RatSub(phi, ph)))

\* the phase the iterations before iteration i have accumulated
AccumulatedBefore(i) ==
    LET add[j \in 0..(i - 1)] ==
            IF j = 0 THEN Zero
            ELSE RatAdd(add[j - 1], Rat(history[j].bit, Pow2(history[j].k + 1)))
    IN  add[i - 1]

\* the angles, in units of pi/2, of the u1 gates of a circuit, in order
FeedbackAngles(circuit) ==
    LET at[j \in 0..Len(circuit)] ==
            IF j = 0 THEN <<>>
            ELSE IF circuit[j].gate = "u1" THEN Append(at[j - 1], circuit[j].args[1])
            ELSE at[j - 1]
    IN  at[Len(circuit)]

\* C15: for every phi in [0, 1) representable in num_bits binary digits and every
\* iteration k whose earlier iterations recovered their bits correctly, the residual
\* phase 2^k * (phi - phase) mod 1 the ancillary qubit carries is exactly 0 or 1/2
\* (1/2 exactly when the digit of phi for k is 1), and the one feedback rotation of
\* the iteration has the angle -2*pi * phase * 2^k, phase being what the earlier
\* iterations accumulated.  Checked under SpecIPEA.
C15_residual_is_zero_or_half ==
    \A i \in DOMAIN history :
        LET k == history[i].k
            before == AccumulatedBefore(i)
        IN  /\ history[i].before = before
            /\ FeedbackAngles(history[i].circuit) =
                  <<Rat(-(2 * np_pi) * Pow2(k) * before.num, before.den)>>
            /\ (Representable(phi) /\ EarlierBitsCorrect(i)) =>
                  /\ Residual(k, before) \in {Zero, Rat(1, 2)}
                  /\ Residual(k, before) = Rat(Digit(phi, k + 1), 2)
                  /\ Frac(AncillaTurns(history[i].circuit)) = Residual(k, before)

\* phi = 0.101b: residual 1/2 in the first iteration, 0 in the second, after a
\* nonzero feedback rotation, 1/2 in the third
C15_witness ==
    /\ num_bits_estimate = 3
    /\ phi = [num |-> 5, den |-> 8]
    /\ Len(history) = 3
    /\ EarlierBitsCorrect(3)
    /\ Frac(AncillaTurns(history[1].circuit)) = Rat(1, 2)
    /\ Frac(AncillaTurns(history[2].circuit)) = Zero
    /\ Frac(AncillaTurns(history[3].circuit)) = Rat(1, 2)
    /\ FeedbackAngles(history[2].circuit) # <<Zero>>

\* how many times the circuit applies the controlled unitary
Applications(circuit) ==
    Cardinality({j \in DOMAIN circuit : circuit[j].gate = "control_H"})

\* the controlled-unitary applications of the first i iterations together
TotalApplications(i) ==
    LET tot[j \in 0..i] ==
            IF j = 0 THEN 0 ELSE tot[j - 1] + Applications(history[j].circuit)
    IN  tot[i]

\* C16: the iteration for bit index k appends the controlled unitary exactly 2^k
\* times, each controlled by the ancillary qubit on the main qubit; the first
\* iteration uses the most, 2^(num_bits - 1), no later iteration uses more than an
\* earlier one, and a complete estimation uses 2^num_bits - 1 in total.
\* Checked under SpecIPEA.
C16_controlled_unitary_count ==
    /\ \A i \in DOMAIN history :
          /\ Applications(history[i].circuit) = Pow2(history[i].k)
          /\ \A j \in DOMAIN history[i].circuit :
                history[i].circuit[j].gate = "control_H" =>
                    history[i].circuit[j].qubit = "a,q"
          /\ \A j \in DOMAIN history :
                i < j => Applications(history[j].circuit)
                            <= Applications(history[i].circuit)
    /\ history # <<>> =>
          Applications(history[1].circuit) = Pow2(num_bits_estimate - 1)
    /\ pc # "loop" => TotalApplications(Len(history)) = Pow2(num_bits_estimate) - 1

\* three iterations with 4, 2 and 1 applications, 7 in total
C16_witness ==
    /\ num_bits_estimate = 3
    /\ pc = "done"
    /\ Len(history) = 3
    /\ Applications(history[1].circuit) = 4
    /\ Applications(history[2].circuit) = 2
    /\ Applications(history[3].circuit) = 1
    /\ TotalApplications(3) = 7

\* the sum of bit * 2^(num_bits - 1 - k) over the first i iterations: 2^num_bits
\* times the sum of bit / 2^(k + 1)
ScaledBitSum(i) ==
    LET acc[j \in 0..i] ==
            IF j = 0 THEN 0
            ELSE acc[j - 1]
                   + history[j].bit * Pow2(num_bits_estimate - 1 - history[j].k)
    IN  acc[i]

\* C17: each iteration adds b_k / 2^(k+1) to the phase; after the iterations for the
\* indices num_bits - 1 down to j the phase is the sum of b_i / 2^(i+1) over i from j
\* to num_bits - 1, every index contributing once; the bit sequence can be read back
\* from the phase, so distinct bit sequences give distinct phases.
\* Checked under SpecIPEA.
C17_phase_is_sum_of_weighted_bits ==
    /\ \A i \in DOMAIN history :
          /\ history[i].after =
                RatAdd(history[i].before, Rat(history[i].bit, Pow2(history[i].k + 1)))
          /\ history[i].before = IF i = 1 THEN Zero ELSE history[i - 1].after
          /\ history[i].k \in 0..(num_bits_estimate - 1)
          /\ \A j \in DOMAIN history : history[j].k = history[i].k => j = i
          /\ history[i].bit = Digit(phase, history[i].k + 1)
    /\ phase = IF history = <<>> THEN Zero ELSE history[Len(history)].after
    /\ phase.num * Pow2(num_bits_estimate) = phase.den * ScaledBitSum(Len(history))
    /\ \A j \in 1..num_bits_estimate :
          Digit(phase, j) = 1 => \E i \in DOMAIN history : history[i].k + 1 = j

\* a noisy run that recovered the bits 1, 0, 1 for the indices 2, 1, 0
C17_witness ==
    /\ ~noiseless
    /\ num_bits_estimate = 3
    /\ pc = "done"
    /\ <<history[1].bit, history[2].bit, history[3].bit>> = <<1, 0, 1>>
    /\ phase = [num |-> 5, den |-> 8]

\* C18: the loop variable k takes the values num_bits - 1, num_bits - 2, ..., 0 in
\* strictly decreasing order, each exactly once: every iteration moves it, the first
\* to num_bits - 1 and each later one down by one, and the loop ends with k = 0.  The
\* estimation starts from the last bit: the bit recovered in the first iteration is
\* added with the weight 2^-num_bits.  Checked under SpecIPEA.
C18_k_counts_down_from_last_bit ==
    /\ k_precision = -1
    /\ [][/\ Len(history') = Len(history) + 1 =>
                /\ k_precision' = IF history = <<>> THEN num_bits_estimate - 1
                                                    ELSE k_precision - 1
                /\ k_precision' >= 0
                /\ history'[Len(history')].k = k_precision'
          /\ Len(history') = Len(history) => k_precision' = k_precision]_vars
    /\ [](/\ pc # "loop" => k_precision = (IF num_bits_estimate = 0 THEN -1 ELSE 0)
          /\ history # <<>> =>
                /\ history[1].k = num_bits_estimate - 1
                /\ RatSub(history[1].after, history[1].before)
                      = Rat(history[1].bit, Pow2(num_bits_estimate)))

\* the first of three iterations recovered a 1 and the phase became 1/8
C18_witness ==
    /\ num_bits_estimate = 3
    /\ pc = "done"
    /\ k_precision = 0
    /\ <<history[1].k, history[2].k, history[3].k>> = <<2, 1, 0>>
    /\ history[1].bit = 1
    /\ history[1].after = [num |-> 1, den |-> 8]

\* the instructions an iteration for bit index k applies when the phase accumulated
\* before it is ph, in order
StepsInOrder(k, ph) ==
    <<[gate |-> "x", args |-> <<>>, qubit |-> "q"],
      [gate |-> "h", args |-> <<>>, qubit |-> "a"]>>
    \o [j \in 1..Pow2(k) |-> [gate |-> "control_H", args |-> <<>>, qubit |-> "a,q"]]
    \o <<[gate |-> "u1", args |-> <<Rat(-(2 * np_pi) * Pow2(k) * ph.num, ph.den)>>,
          qubit |-> "a"],
         [gate |-> "h", args |-> <<>>, qubit |-> "a"],
         [gate |-> "measure", args |-> <<>>, qubit |-> "a"]>>

\* C19: every iteration builds a fresh circuit and applies, in this order: X on the
\* main qubit, H on the ancillary qubit, the controlled-unitary applications, the
\* feedback rotation, the second H, the measurement of the ancillary qubit; then the
\* simulator is executed exactly once, on that circuit with 1000 shots.  Of the
\* earlier iterations only the accumulated phase enters the circuit.
\* Checked under SpecIPEA.
C19_fresh_circuit_steps_in_order ==
    /\ [](\A i \in DOMAIN history :
            /\ history[i].circuit = StepsInOrder(history[i].k, history[i].before)
            /\ history[i].executed =
                  <<[circuit |-> history[i].circuit, shots |-> 1000]>>)
    /\ [](k_circ = IF history = <<>> THEN <<>> ELSE history[Len(history)].circuit)
    /\ [][Len(history') = Len(history) + 1 =>
            /\ k_circ' = StepsInOrder(k_precision', phase)
            /\ \A i \in DOMAIN history : history'[i] = history[i]]_vars

\* the second iteration of three, after a first bit 1: six steps around two
\* controlled-unitary applications, the feedback rotation not zero
C19_witness ==
    /\ num_bits_estimate = 3
    /\ Len(history) = 2
    /\ history[1].bit = 1
    /\ Len(k_circ) = 7
    /\ <<k_circ[1].gate, k_circ[2].gate, k_circ[3].gate, k_circ[4].gate,
          k_circ[5].gate, k_circ[6].gate, k_circ[7].gate>>
         = <<"x", "h", "control_H", "control_H", "u1", "h", "measure">>
    /\ k_circ[5].args # <<Zero>>
    /\ Len(history[2].executed) = 1

\* C20: the bit recovered in an iteration is 0 or 1 and is the majority vote of the
\* iteration's shots: an outcome that occurred, with a count at least the other
\* outcome's; the outcome of the strictly larger count when the counts differ, the
\* only outcome when only one occurred.  Checked under SpecIPEA.
C20_bit_is_majority_vote ==
    history # <<>> =>
        LET n0 == Reported(counts, "0")
            n1 == Reported(counts, "1")
        IN  /\ value \in {0, 1}
            /\ history[Len(history)].bit = value
            /\ DOMAIN counts \subseteq {"0", "1"}
            /\ n0 + n1 = 1000
            /\ value = 0 => ("0" \in DOMAIN counts /\ n0 >= n1)
            /\ value = 1 => ("1" \in DOMAIN counts /\ n1 >= n0)
            /\ n0 > n1 => value = 0
            /\ n1 > n0 => value = 1

\* both outcomes occurred, 250 times '0' and 750 times '1': the bit is 1
C20_witness ==
    /\ history # <<>>
    /\ DOMAIN counts = {"0", "1"}
    /\ counts["0"] = [num |-> 250, den |-> 1]
    /\ counts["1"] = [num |-> 750, den |-> 1]
    /\ value = 1

\* the bits the current estimation has recovered, in the order of the iterations
BitsRecovered == [i \in DOMAIN history |-> history[i].bit]

====
